---------------------------- MODULE Spec2Model ----------------------------
(***************************************************************************)
(* Model of the log-ingestion server of src/src/main.rs: concurrent        *)
(* ingest_handler invocations (producers), one bounded mpsc channel, one    *)
(* writer task (consumer) inserting rows into the table `logs`, and the     *)
(* graceful-shutdown sequence of main.                                      *)
(***************************************************************************)
EXTENDS Integers, Sequences, FiniteSets, TLC

(***************************************************************************)
(* Bounds of the model.                                                     *)
(***************************************************************************)
\* mpsc::channel::<LogEntry>(10000): the capacity, scaled down.
Capacity == 2
\* Number of requests the HTTP server accepts in one behaviour.
MaxRequests == 2

\* The instants chrono::Utc::now() may return, in order.
Instants == {0, 1}

\* Concurrent connection tasks of the HTTP server.
Handlers == {1, 2}

(***************************************************************************)
(* JSON values.  A scalar is <<type, text>>; an object is a function from   *)
(* its keys to scalars.                                                     *)
(***************************************************************************)
Str(s) == <<"str", s>>
Num(s) == <<"num", s>>

\* The keys of the modelled objects in the order of serde_json's Map
\* (a BTreeMap: lexicographic).
KeyOrder == <<"host", "level", "message", "timestamp">>

Obj2(k1, v1, k2, v2) == (k1 :> v1) @@ (k2 :> v2)

Entry(level, message) == Obj2("level", Str(level), "message", Str(message))

ProvidedTs == "2024-01-01T00:00:00Z"

\* The request bodies the clients send.
\* An error-level entry without a timestamp and one with a string timestamp,
\* around an entry of another level.
BodyBatch ==
    [kind |-> "array",
     elems |-> << Entry("error", "disk full"),
                  Entry("info", "heartbeat"),
                  Entry("error", "x") @@ ("timestamp" :> Str(ProvidedTs)) >>]
\* A level that differs from "error" only in case, and an error-level entry
\* with a numeric timestamp and another extra field.
BodyNumeric ==
    [kind |-> "array",
     elems |-> << Entry("ERROR", "b"),
                  Entry("error", "c") @@ ("timestamp" :> Num("1704067200"))
                                      @@ ("host" :> Str("web-1")) >>]
\* An array whose second element lacks `message`, after a valid error entry.
BodyBadTail ==
    [kind |-> "array",
     elems |-> << Entry("error", "p"), ("level" :> Str("error")) >> ]
\* JSON that is not an array.
BodyNotArray == [kind |-> "object", elems |-> <<>>]

Bodies == { BodyBatch, BodyNumeric, BodyBadTail, BodyNotArray }

(***************************************************************************)
(* LogEntry and its deserialization.                                        *)
(***************************************************************************)
\* Whether a JSON object deserializes to a LogEntry: `level` and `message`
\* are required strings.
IsLogEntry(o) ==
    /\ "level" \in DOMAIN o /\ o["level"][1] = "str"
    /\ "message" \in DOMAIN o /\ o["message"][1] = "str"

\* #[derive(Deserialize)] struct LogEntry: the two named fields, and every
\* other field collected by #[serde(flatten)] into `extra`, always an Object.
LogEntry(o) ==
    [ level |-> o["level"][2],
      message |-> o["message"][2],
      extra |-> [ kind |-> "Object",
                  map |-> [k \in DOMAIN o \ {"level", "message"} |-> o[k]] ] ]

\* The body is a JSON array of log entries.
WellFormed(body) ==
    /\ body.kind = "array"
    /\ \A i \in 1..Len(body.elems) : IsLogEntry(body.elems[i])

RECURSIVE ValidPrefix(_)
\* Helper of the mutant JsonExtractLazy: the log entries at the front of a
\* sequence of JSON objects.
ValidPrefix(elems) ==
    IF elems = <<>> \/ ~IsLogEntry(Head(elems)) THEN <<>>
    ELSE << LogEntry(Head(elems)) >> \o ValidPrefix(Tail(elems))

\* Mutant of JsonExtract: the array is read lazily, and the entries before
\* the first malformed element are handed to the handler.
JsonExtractLazy(body) ==
    [ ok |-> body.kind = "array", payload |-> ValidPrefix(body.elems) ]

\* Json<Vec<LogEntry>>: the whole body is deserialized before the handler
\* runs; the result is the vector, or a rejection.
JsonExtract(body) ==
    IF WellFormed(body)
    THEN [ ok |-> TRUE,
           payload |-> [i \in 1..Len(body.elems) |-> LogEntry(body.elems[i])] ]
    ELSE [ ok |-> FALSE, payload |-> <<>> ]

\* The rejection of the Json extractor: 422 for JSON of the wrong shape.
JsonRejection == 422
ACCEPTED == 202

(***************************************************************************)
(* Helpers of ingest_handler and writer_task.                               *)
(***************************************************************************)
\* chrono::Utc::now().to_rfc3339() at clock reading t.
Rfc3339(t) == "2024-06-01T12:00:0" \o ToString(t) \o "+00:00"

\* main.rs 135-136: chrono::Utc::now() is called for an object without a
\* `timestamp` key, and only then.
ReadsClock(log) ==
    log.extra.kind = "Object" /\ "timestamp" \notin DOMAIN log.extra.map

\* Mutant of Enrich: the time injected is one read once, at startup.
EnrichStale(log, now) ==
    IF ReadsClock(log)
    THEN [log EXCEPT !.extra.map = @ @@ ("timestamp" :> Str(Rfc3339(0)))]
    ELSE log

\* main.rs 134-139: inject the current time when extra is an object without
\* a `timestamp` key; leave every other extra untouched.
Enrich(log, now) ==
    IF ReadsClock(log)
    THEN [log EXCEPT !.extra.map = @ @@ ("timestamp" :> Str(Rfc3339(now)))]
    ELSE log

\* Mutant of TimestampOf: a placeholder is stored when no string is found.
TimestampOfPlaceholder(extra) ==
    IF extra.kind = "Object" /\ "timestamp" \in DOMAIN extra.map
       /\ extra.map["timestamp"][1] = "str"
    THEN extra.map["timestamp"][2]
    ELSE "unknown"

\* main.rs 77: log.extra.get("timestamp").and_then(|v| v.as_str()).unwrap_or("")
TimestampOf(extra) ==
    IF extra.kind = "Object" /\ "timestamp" \in DOMAIN extra.map
       /\ extra.map["timestamp"][1] = "str"
    THEN extra.map["timestamp"][2]
    ELSE ""

RECURSIVE Members(_, _, _)
\* The members of object m whose keys are among KeyOrder[i..], in key order.
Members(m, i, acc) ==
    IF i > Len(KeyOrder) THEN acc
    ELSE IF KeyOrder[i] \in DOMAIN m
         THEN Members(m, i + 1, Append(acc, <<KeyOrder[i], m[KeyOrder[i]][1], m[KeyOrder[i]][2]>>))
         ELSE Members(m, i + 1, acc)

\* Mutant of ToJsonString: only the timestamp is serialized.
ToJsonStringTimestampOnly(extra) ==
    IF extra.kind = "Object"
    THEN Members([k \in DOMAIN extra.map \cap {"timestamp"} |-> extra.map[k]], 1, <<>>)
    ELSE <<>>

\* main.rs 80: serde_json::to_string(&log.extra).unwrap_or_default(): the
\* text of the object as its members in key order; a value that is not an
\* object is null here, and its text is the one token null.
ToJsonString(extra) ==
    IF extra.kind = "Object" THEN Members(extra.map, 1, <<>>)
    ELSE << << "$", "null", "null" >> >>

\* serde_json::from_str of a `details` text: the mapping it denotes.
FromJsonString(details) ==
    [k \in {details[i][1] : i \in 1..Len(details)} |->
        LET i == CHOOSE j \in 1..Len(details) : details[j][1] = k
        IN  <<details[i][2], details[i][3]>>]

(***************************************************************************)
(* State.                                                                   *)
(***************************************************************************)
VARIABLES
    mainpc,     \* position of main: "serve", "graceful", "join", "exit"
    senders,    \* live Sender handles of the channel (AppState clones)
    rxOpen,     \* the Receiver has not been dropped
    queue,      \* records buffered in the channel; a record is the LogEntry
                \* `log` with its history tag `src` = <<request, position>>
    wpc,        \* position of writer_task: "recv", "insert", "done"
    wlog,       \* the record writer_task holds (0 or 1)
    logs,       \* rows of table logs
    hpc,        \* position of each handler: "idle", "extract", "loop", "send"
    payload,    \* entries of the batch not yet visited by the for loop
    log,        \* the entry a handler is sending (0 or 1)
    clock,      \* latest reading of the wall clock
    \* history
    requests,   \* bodies of the requests accepted so far; index = request id
    responses,  \* status answered to each request, 0 while pending
    rid,        \* request a handler is serving, 0 when idle
    stamped,    \* <<tag, clock reading>> of each injected timestamp
    enqueued,   \* tags of the records whose send completed, in order
    failed,     \* tags of the records whose insert failed, in order
    dropped     \* tags of the records whose send returned an error

vars == << mainpc, senders, rxOpen, queue, wpc, wlog, logs, hpc, payload, log,
           clock, requests, responses, rid, stamped, enqueued, failed, dropped >>

hvars == << requests, responses, stamped, enqueued, failed, dropped >>

\* The shape of the state.
TypeOK ==
    /\ mainpc \in {"serve", "graceful", "join", "exit"}
    /\ senders \in 0..(Cardinality(Handlers) + 1)
    /\ rxOpen \in BOOLEAN
    /\ wpc \in {"recv", "insert", "done"}
    /\ Len(wlog) = (IF wpc = "insert" THEN 1 ELSE 0)
    /\ hpc \in [Handlers -> {"idle", "extract", "loop", "send"}]
    /\ \A h \in Handlers :
          /\ Len(log[h]) = (IF hpc[h] = "send" THEN 1 ELSE 0)
          /\ (hpc[h] = "idle") = (rid[h] = 0)
          /\ rid[h] \in 0..Len(requests)
          /\ hpc[h] \in {"idle", "extract"} => payload[h] = <<>>
    /\ clock \in Instants
    /\ Len(requests) <= MaxRequests
    /\ Len(responses) = Len(requests)
    /\ \A r \in 1..Len(requests) :
          /\ requests[r] \in Bodies
          /\ responses[r] \in {0, ACCEPTED, JsonRejection}

\* main.rs 33-102: the channel is created, logs.db is fresh and its table
\* created, the writer task is spawned and the server listens.
Init ==
    /\ mainpc = "serve"
    /\ senders = 1
    /\ rxOpen = TRUE
    /\ queue = <<>>
    /\ wpc = "recv"
    /\ wlog = <<>>
    /\ logs = <<>>
    /\ hpc = [h \in Handlers |-> "idle"]
    /\ payload = [h \in Handlers |-> <<>>]
    /\ log = [h \in Handlers |-> <<>>]
    /\ clock = 0
    /\ requests = <<>>
    /\ responses = <<>>
    /\ rid = [h \in Handlers |-> 0]
    /\ stamped = {}
    /\ enqueued = <<>>
    /\ failed = <<>>
    /\ dropped = <<>>

(***************************************************************************)
(* ingest_handler.  One invocation per request; its steps are the          *)
(* extraction of the arguments, one iteration of the for loop up to its     *)
(* send, the completion of the send, and the return of the status.          *)
(***************************************************************************)
Body(h) == requests[rid[h]]

\* Mutant of IsErrorLevel: the comparison ignores case.
IsErrorLevelAnyCase(level) == level \in {"error", "ERROR", "Error"}

\* main.rs 132: if log.level == "error"
IsErrorLevel(level) == level = "error"

\* Mutant of HasPermit: an unbounded channel, whose send never waits.
HasPermitAlways == TRUE

\* Mutant of HasPermit: a send is let through with Capacity records buffered.
HasPermitOffByOne == Len(queue) <= Capacity

\* The bounded channel has a free slot: tx.send(log).await can complete.
HasPermit == Len(queue) < Capacity

\* Mutant of Pushed: the record goes in front of the buffered ones.
PushedFront(q, item) == << item >> \o q

\* The channel after a completed send: the record is the last one buffered.
Pushed(q, item) == Append(q, item)

\* Mutant of LoopDone: the loop stops one entry short.
LoopDoneEarly(p) == Len(p) <= 1

\* main.rs 130, 148: the for loop has consumed the payload.
LoopDone(p) == p = <<>>

\* Mutant of DropSender: the handle is kept alive.
KeepSender(n) == n

\* A Sender handle is dropped.
DropSender(n) == n - 1

\* The HTTP server hands a request to a new invocation of the handler,
\* which holds a clone of AppState (and so of the Sender).  Tasks being
\* interchangeable, the request goes to the first idle one.
Accept(h, b) ==
    /\ mainpc = "serve"
    /\ hpc[h] = "idle"
    /\ \A g \in Handlers : g < h => hpc[g] # "idle"
    /\ Len(requests) < MaxRequests
    /\ requests' = Append(requests, b)
    /\ responses' = Append(responses, 0)
    /\ rid' = [rid EXCEPT ![h] = Len(requests) + 1]
    /\ hpc' = [hpc EXCEPT ![h] = "extract"]
    /\ senders' = senders + 1
    /\ UNCHANGED << mainpc, rxOpen, queue, wpc, wlog, logs, payload, log,
                    clock, stamped, enqueued, failed, dropped >>

\* main.rs 124-127: Json(payload): Json<Vec<LogEntry>>.  A body that is not
\* an array of log entries is rejected and the handler body never runs.
Extract(h) ==
    /\ hpc[h] = "extract"
    /\ IF JsonExtract(Body(h)).ok
       THEN /\ payload' = [payload EXCEPT ![h] = JsonExtract(Body(h)).payload]
            /\ hpc' = [hpc EXCEPT ![h] = "loop"]
            /\ UNCHANGED << responses, rid, senders >>
       ELSE /\ responses' = [responses EXCEPT ![rid[h]] = JsonRejection]
            /\ hpc' = [hpc EXCEPT ![h] = "idle"]
            /\ rid' = [rid EXCEPT ![h] = 0]
            /\ senders' = DropSender(senders)
            /\ UNCHANGED payload
    /\ UNCHANGED << mainpc, rxOpen, queue, wpc, wlog, logs, log, clock,
                    requests, stamped, enqueued, failed, dropped >>

RECURSIVE SkipFiltered(_)
\* main.rs 130-132, 145-147: the iterations over entries of other levels,
\* which only log that the entry is filtered: what is left of the payload at
\* the next error-level entry, or at its end.
SkipFiltered(p) ==
    IF p = <<>> \/ IsErrorLevel(Head(p).level) THEN p ELSE SkipFiltered(Tail(p))

\* main.rs 130-151: the handler runs from its last suspension point to the
\* next one: the for loop up to the send of the next error-level entry,
\* enriched at the clock reading `now`; or, the payload exhausted, up to the
\* return of 202.
ForNext(h, now) ==
    /\ hpc[h] = "loop"
    /\ now >= clock
    /\ LET rest == SkipFiltered(payload[h])
           tag  == << rid[h], Len(Body(h).elems) - Len(rest) + 1 >>
       IN  IF LoopDone(rest)
           THEN /\ responses' = [responses EXCEPT ![rid[h]] = ACCEPTED]
                /\ hpc' = [hpc EXCEPT ![h] = "idle"]
                /\ rid' = [rid EXCEPT ![h] = 0]
                /\ senders' = DropSender(senders)
                /\ payload' = [payload EXCEPT ![h] = <<>>]
                /\ now = clock
                /\ UNCHANGED << log, stamped, clock >>
           ELSE /\ payload' = [payload EXCEPT ![h] = Tail(rest)]
                /\ log' = [log EXCEPT ![h] =
                             << [ log |-> Enrich(Head(rest), now), src |-> tag ] >>]
                /\ IF ReadsClock(Head(rest))
                   THEN /\ clock' = now
                        /\ stamped' = stamped \cup { << tag, now >> }
                   ELSE /\ now = clock
                        /\ UNCHANGED << clock, stamped >>
                /\ hpc' = [hpc EXCEPT ![h] = "send"]
                /\ UNCHANGED << responses, rid, senders >>
    /\ UNCHANGED << mainpc, rxOpen, queue, wpc, wlog, logs, requests,
                    enqueued, failed, dropped >>

\* Mutant of Send: the handler returns a server error when the send fails.
SendPropagatesError(h) ==
    /\ hpc[h] = "send"
    /\ IF ~rxOpen
       THEN /\ dropped' = Append(dropped, log[h][1].src)
            /\ responses' = [responses EXCEPT ![rid[h]] = 500]
            /\ hpc' = [hpc EXCEPT ![h] = "idle"]
            /\ rid' = [rid EXCEPT ![h] = 0]
            /\ payload' = [payload EXCEPT ![h] = <<>>]
            /\ senders' = senders - 1
            /\ UNCHANGED << queue, enqueued >>
       ELSE /\ HasPermit
            /\ queue' = Pushed(queue, log[h][1])
            /\ enqueued' = Append(enqueued, log[h][1].src)
            /\ hpc' = [hpc EXCEPT ![h] = "loop"]
            /\ UNCHANGED << dropped, responses, rid, payload, senders >>
    /\ log' = [log EXCEPT ![h] = <<>>]
    /\ UNCHANGED << mainpc, rxOpen, wpc, wlog, logs, clock,
                    requests, stamped, failed >>

\* Mutant of Send: on the full channel the send evicts the oldest record.
SendEvictsOldest(h) ==
    /\ hpc[h] = "send"
    /\ IF ~rxOpen
       THEN /\ dropped' = Append(dropped, log[h][1].src)
            /\ UNCHANGED << queue, enqueued >>
       ELSE /\ queue' = IF HasPermit THEN Pushed(queue, log[h][1])
                                     ELSE Pushed(Tail(queue), log[h][1])
            /\ enqueued' = Append(enqueued, log[h][1].src)
            /\ UNCHANGED dropped
    /\ log' = [log EXCEPT ![h] = <<>>]
    /\ hpc' = [hpc EXCEPT ![h] = "loop"]
    /\ UNCHANGED << mainpc, senders, rxOpen, wpc, wlog, logs, payload, clock,
                    requests, responses, rid, stamped, failed >>

\* main.rs 144: let _ = state.tx.send(log).await.  With the receiver gone the
\* send returns an error, which is discarded; otherwise it completes when
\* the channel has a free slot.
Send(h) ==
    /\ hpc[h] = "send"
    /\ IF ~rxOpen
       THEN /\ dropped' = Append(dropped, log[h][1].src)
            /\ UNCHANGED << queue, enqueued >>
       ELSE /\ HasPermit
            /\ queue' = Pushed(queue, log[h][1])
            /\ enqueued' = Append(enqueued, log[h][1].src)
            /\ UNCHANGED dropped
    /\ log' = [log EXCEPT ![h] = <<>>]
    /\ hpc' = [hpc EXCEPT ![h] = "loop"]
    /\ UNCHANGED << mainpc, senders, rxOpen, wpc, wlog, logs, payload, clock,
                    requests, responses, rid, stamped, failed >>

(***************************************************************************)
(* writer_task.                                                             *)
(***************************************************************************)
\* Mutant of EndOfStream: the worker ends as soon as the channel is empty.
EndOfStreamOnEmpty == queue = <<>>

\* rx.recv() returns None: nothing buffered and every Sender dropped.
EndOfStream == queue = <<>> /\ senders = 0

\* Mutant of NextRowId: the id of the last row is used again.
NextRowIdReused == IF logs = <<>> THEN 1 ELSE logs[Len(logs)].id

\* INTEGER PRIMARY KEY AUTOINCREMENT: one more than the largest id so far.
NextRowId == IF logs = <<>> THEN 1 ELSE logs[Len(logs)].id + 1

\* main.rs 76-87: the row bound from a received entry.
Row(item) ==
    [ id        |-> NextRowId,
      level     |-> item.log.level,
      message   |-> item.log.message,
      timestamp |-> TimestampOf(item.log.extra),
      details   |-> ToJsonString(item.log.extra),
      src       |-> item.src ]

\* Mutant of Recv: the worker takes the newest record of the channel.
RecvNewest ==
    /\ wpc = "recv"
    /\ IF queue # <<>>
       THEN /\ wlog' = << queue[Len(queue)] >>
            /\ queue' = SubSeq(queue, 1, Len(queue) - 1)
            /\ wpc' = "insert"
            /\ UNCHANGED rxOpen
       ELSE /\ EndOfStream
            /\ wpc' = "done"
            /\ rxOpen' = FALSE
            /\ UNCHANGED << wlog, queue >>
    /\ UNCHANGED << mainpc, senders, logs, hpc, payload, log, clock,
                    hvars, rid >>

\* Mutant of Recv: the worker reads the head of the channel and leaves it
\* there.
RecvPeek ==
    /\ wpc = "recv"
    /\ IF queue # <<>>
       THEN /\ wlog' = << Head(queue) >>
            /\ wpc' = "insert"
            /\ UNCHANGED << rxOpen, queue >>
       ELSE /\ EndOfStream
            /\ wpc' = "done"
            /\ rxOpen' = FALSE
            /\ UNCHANGED << wlog, queue >>
    /\ UNCHANGED << mainpc, senders, logs, hpc, payload, log, clock,
                    hvars, rid >>

\* main.rs 73: while let Some(log) = rx.recv().await
Recv ==
    /\ wpc = "recv"
    /\ IF queue # <<>>
       THEN /\ wlog' = << Head(queue) >>
            /\ queue' = Tail(queue)
            /\ wpc' = "insert"
            /\ UNCHANGED rxOpen
       ELSE /\ EndOfStream
            /\ wpc' = "done"
            /\ rxOpen' = FALSE
            /\ UNCHANGED << wlog, queue >>
    /\ UNCHANGED << mainpc, senders, logs, hpc, payload, log, clock,
                    hvars, rid >>

\* Mutant of Insert: the worker leaves its loop when an insert fails.
InsertStopOnError(ok) ==
    /\ wpc = "insert"
    /\ IF ok
       THEN /\ logs' = Append(logs, Row(wlog[1]))
            /\ UNCHANGED failed
       ELSE /\ failed' = Append(failed, wlog[1].src)
            /\ UNCHANGED logs
    /\ wlog' = <<>>
    /\ wpc' = IF ok THEN "recv" ELSE "done"
    /\ UNCHANGED << mainpc, senders, rxOpen, queue, hpc, payload, log, clock,
                    requests, responses, rid, stamped, enqueued, dropped >>

\* main.rs 83-89: let _ = sqlx::query("INSERT ...").execute(&pool).await.
\* The insert succeeds or fails; its result is discarded.
Insert(ok) ==
    /\ wpc = "insert"
    /\ IF ok
       THEN /\ logs' = Append(logs, Row(wlog[1]))
            /\ UNCHANGED failed
       ELSE /\ failed' = Append(failed, wlog[1].src)
            /\ UNCHANGED logs
    /\ wlog' = <<>>
    /\ wpc' = "recv"
    /\ UNCHANGED << mainpc, senders, rxOpen, queue, hpc, payload, log, clock,
                    requests, responses, rid, stamped, enqueued, dropped >>

\* The writer task ends abnormally: a panic under the insert (main.rs 83-89)
\* unwinds the task, which drops rx and with it the buffered records; the
\* join error is discarded at main.rs 111.  No line of main.rs panics
\* there, so the step is in AbortSpec only, never in Spec.
WriterAbort ==
    /\ wpc = "insert"
    /\ wpc' = "done"
    /\ rxOpen' = FALSE
    /\ queue' = <<>>
    /\ wlog' = <<>>
    /\ UNCHANGED << mainpc, senders, logs, hpc, payload, log, clock,
                    hvars, rid >>

(***************************************************************************)
(* main and shutdown_signal.                                                *)
(***************************************************************************)
\* No request is in flight.
NoInFlight == \A h \in Handlers : hpc[h] = "idle"

\* Mutant of WriterFinished: main does not wait for the writer task.
WriterNotAwaited == TRUE

\* The writer task has returned.
WriterFinished == wpc = "done"

\* main.rs 116-119: ctrl_c() resolves; the server stops accepting.
ShutdownSignal ==
    /\ mainpc = "serve"
    /\ mainpc' = "graceful"
    /\ UNCHANGED << senders, rxOpen, queue, wpc, wlog, logs, hpc, payload,
                    log, clock, hvars, rid >>

\* main.rs 105-108: axum::serve(..).with_graceful_shutdown(..).await returns
\* once the in-flight requests are done; the router, and with it the
\* AppState holding tx, is dropped.
ServeReturn ==
    /\ mainpc = "graceful"
    /\ NoInFlight
    /\ mainpc' = "join"
    /\ senders' = DropSender(senders)
    /\ UNCHANGED << rxOpen, queue, wpc, wlog, logs, hpc, payload, log, clock,
                    hvars, rid >>

\* main.rs 111-113: let _ = writer_task.await; then main returns.
WriterJoin ==
    /\ mainpc = "join"
    /\ WriterFinished
    /\ mainpc' = "exit"
    /\ UNCHANGED << senders, rxOpen, queue, wpc, wlog, logs, hpc, payload,
                    log, clock, hvars, rid >>

Next ==
    \/ \E h \in Handlers, b \in Bodies : Accept(h, b)
    \/ \E h \in Handlers : Extract(h)
    \/ \E h \in Handlers, now \in Instants : ForNext(h, now)
    \/ \E h \in Handlers : Send(h)
    \/ Recv
    \/ \E ok \in BOOLEAN : Insert(ok)
    \/ ShutdownSignal
    \/ ServeReturn
    \/ WriterJoin

Spec == Init /\ [][Next]_vars

\* The steps of the three kinds of task.
HandlerTask(h) == Extract(h) \/ (\E now \in Instants : ForNext(h, now)) \/ Send(h)
WriterTask == Recv \/ \E ok \in BOOLEAN : Insert(ok)
MainTask == ServeReturn \/ WriterJoin

\* The runtime polls every task that is ready, a request body arrives in
\* full, and every insert returns; the interrupt signal may never arrive.
FairSpec ==
    /\ Spec
    /\ \A h \in Handlers : WF_vars(HandlerTask(h))
    /\ WF_vars(WriterTask)
    /\ WF_vars(MainTask)

\* The program with a writer task that may end abnormally.
AbortNext == Next \/ WriterAbort

AbortSpec == Init /\ [][AbortNext]_vars

\* Values of LogEntry as writer_task may be handed them by the type of the
\* channel alone, whatever the handler does before its send: extra an object
\* without `timestamp`, extra not an object, `timestamp` a number,
\* `timestamp` a string.
RecNoTimestamp ==
    [ level |-> "error", message |-> "a",
      extra |-> [ kind |-> "Object", map |-> ("host" :> Str("web-1")) ] ]

RecNotMapping ==
    [ level |-> "error", message |-> "b",
      extra |-> [ kind |-> "Null", map |-> << >> ] ]

RecNumeric == LogEntry(BodyNumeric.elems[2])

RecString == LogEntry(BodyBatch.elems[3])

WriterRecords == { RecNoTimestamp, RecNotMapping, RecNumeric, RecString }

\* writer_task on its own: the channel holds up to Capacity records of
\* WriterRecords, every Sender is dropped, and main waits for the task.
WriterInit ==
    /\ mainpc = "join"
    /\ senders = 0
    /\ rxOpen = TRUE
    /\ \E n \in 1..Capacity : \E f \in [1..n -> WriterRecords] :
          /\ queue = [k \in 1..n |-> [ log |-> f[k], src |-> << 0, k >> ]]
          /\ enqueued = [k \in 1..n |-> << 0, k >>]
    /\ wpc = "recv"
    /\ wlog = <<>>
    /\ logs = <<>>
    /\ hpc = [h \in Handlers |-> "idle"]
    /\ payload = [h \in Handlers |-> <<>>]
    /\ log = [h \in Handlers |-> <<>>]
    /\ clock = 0
    /\ requests = <<>>
    /\ responses = <<>>
    /\ rid = [h \in Handlers |-> 0]
    /\ stamped = {}
    /\ failed = <<>>
    /\ dropped = <<>>

WriterNext ==
    \/ Recv
    \/ \E ok \in BOOLEAN : Insert(ok)
    \/ WriterJoin

WriterSpec == WriterInit /\ [][WriterNext]_vars

(***************************************************************************)
(* Vocabulary of the properties.                                            *)
(***************************************************************************)
Requests == 1..Len(requests)

\* The JSON object a tag <<request, position>> stands for.
Orig(tag) == requests[tag[1]].elems[tag[2]]

\* The positions of the error-level entries of a well-formed request.
ErrorPositions(r) ==
    { i \in 1..Len(requests[r].elems) : requests[r].elems[i]["level"] = Str("error") }

Range(seq) == { seq[i] : i \in 1..Len(seq) }

\* The records in the channel, in a handler's hands or in the worker's.
InFlight == Range(queue) \cup Range(wlog) \cup UNION { Range(log[h]) : h \in Handlers }

RowIdx == 1..Len(logs)

(***************************************************************************)
(* Filtering.                                                               *)
(***************************************************************************)
\* C1: no entry whose level is not exactly "error" is ever enqueued or ever
\* appears as a row: every record in the channel, held by the worker or
\* stored has level "error", and so has the entry it was made from.
C1_OnlyErrorLevelReachesStore ==
    /\ \A t \in Range(enqueued) : Orig(t)["level"] = Str("error")
    /\ \A it \in Range(queue) \cup Range(wlog) :
          it.log.level = "error" /\ Orig(it.src)["level"] = Str("error")
    /\ \A i \in RowIdx :
          logs[i].level = "error" /\ Orig(logs[i].src)["level"] = Str("error")

\* A batch holding "ERROR" beside an error-level entry was answered and its
\* error-level entry stored.
C1_Witness ==
    \E r \in Requests :
        /\ requests[r] = BodyNumeric
        /\ responses[r] = ACCEPTED
        /\ \E i \in RowIdx : logs[i].src = << r, 2 >>

(***************************************************************************)
(* Backpressure.                                                            *)
(***************************************************************************)
\* C2: with the channel open and holding Capacity records, a step leaves
\* every pending send pending, with its record, unless the step is the
\* worker's dequeue; a send that completes on the open channel appends its
\* record behind the buffered ones and never exceeds the capacity, and no
\* send on the open channel drops its record.  On the open channel a pending
\* send can complete exactly when a slot is free, and while the channel is
\* full the worker is inserting or able to dequeue.
C2_Backpressure ==
    /\ [](\A h \in Handlers :
            (hpc[h] = "send" /\ rxOpen)
               => ((ENABLED Send(h)) <=> Len(queue) < Capacity))
    /\ [](Len(queue) = Capacity
            => (wpc = "insert" \/ (wpc = "recv" /\ ENABLED Recv)))
    /\ [][ \A h \in Handlers :
             /\ (hpc[h] = "send" /\ rxOpen /\ Len(queue) = Capacity)
                   => /\ hpc'[h] = "send"
                      /\ log'[h] = log[h]
                      /\ \/ queue' = queue
                         \/ (wpc = "recv" /\ wpc' = "insert" /\ queue' = Tail(queue))
             /\ (hpc[h] = "send" /\ hpc'[h] # "send" /\ rxOpen)
                   => /\ Len(queue) < Capacity
                      /\ queue' = Append(queue, log[h][1])
                      /\ dropped' = dropped
         ]_vars

\* A handler is blocked on the full channel while the worker holds a record,
\* and an earlier send of the same request has completed.
C2_Witness ==
    \E h \in Handlers :
        /\ hpc[h] = "send"
        /\ rxOpen
        /\ Len(queue) = Capacity
        /\ wpc = "insert"
        /\ \E i \in 1..Len(enqueued) : enqueued[i][1] = rid[h]

(***************************************************************************)
(* Order.                                                                   *)
(***************************************************************************)
\* C3: two stored entries of the same request have row ids in the order of
\* their positions in the batch.
C3_OrderWithinRequest ==
    \A i, j \in RowIdx :
        (logs[i].src[1] = logs[j].src[1] /\ logs[i].src[2] < logs[j].src[2])
            => logs[i].id < logs[j].id

\* Two rows of one request with a row of a concurrent request between them.
C3_Witness ==
    \E i, j, k \in RowIdx :
        /\ i < k /\ k < j
        /\ logs[i].src[1] = logs[j].src[1]
        /\ logs[i].src[2] < logs[j].src[2]
        /\ logs[k].src[1] # logs[i].src[1]

(***************************************************************************)
(* Shutdown.                                                                *)
(***************************************************************************)
\* C4: main does not exit before the writer task has completed; at exit the
\* channel is empty, the worker holds nothing, and every record whose send
\* completed is a row or was lost to a failed insert.
C4_FlushBeforeExit ==
    mainpc = "exit" =>
        /\ wpc = "done"
        /\ queue = <<>>
        /\ wlog = <<>>
        /\ \A t \in Range(enqueued) :
              \/ \E i \in RowIdx : logs[i].src = t
              \/ t \in Range(failed)

\* The process has exited with rows written and an insert failed.
C4_Witness ==
    /\ mainpc = "exit"
    /\ Len(logs) >= 2
    /\ Len(failed) >= 1
    /\ Len(enqueued) = Len(logs) + Len(failed)

\* C5: once the termination signal has arrived, main eventually exits, the
\* writer task having terminated; meanwhile some step is always possible.
C5_ShutdownTerminates ==
    /\ (mainpc = "graceful") ~> (mainpc = "exit" /\ wpc = "done" /\ ~rxOpen)
    /\ [](mainpc # "exit" => ENABLED Next)

\* The signal has arrived while a handler is blocked on the full channel.
C5_Witness ==
    /\ mainpc = "graceful"
    /\ \E h \in Handlers : hpc[h] = "send" /\ Len(queue) = Capacity

(***************************************************************************)
(* Timestamps and details.                                                  *)
(***************************************************************************)
\* The extra fields of the JSON object a tag stands for.
ExtraKeys(tag) == DOMAIN Orig(tag) \ {"level", "message"}

\* C6 (as claimed): for every accepted entry that came with a `timestamp`
\* key, the record keeps the provided value and the row's timestamp column
\* is that value verbatim.
C6_ProvidedTimestampVerbatim ==
    /\ \A it \in InFlight :
          "timestamp" \in ExtraKeys(it.src)
             => it.log.extra.map["timestamp"] = Orig(it.src)["timestamp"]
    /\ \A i \in RowIdx :
          "timestamp" \in ExtraKeys(logs[i].src)
             => logs[i].timestamp = Orig(logs[i].src)["timestamp"][2]

\* C7: an accepted entry without a `timestamp` key carries, from the handler
\* on (before its send), the clock reading taken by the handler in RFC 3339
\* form; the row's timestamp column is that value, non-empty, and equal to
\* the `timestamp` inside the row's details.
C7_InjectedTimestamp ==
    /\ \A s1, s2 \in stamped : s1[1] = s2[1] => s1[2] = s2[2]
    /\ \A it \in InFlight :
          "timestamp" \notin ExtraKeys(it.src)
             => /\ "timestamp" \in DOMAIN it.log.extra.map
                /\ \E t \in Instants :
                      /\ << it.src, t >> \in stamped
                      /\ it.log.extra.map["timestamp"] = Str(Rfc3339(t))
    /\ \A i \in RowIdx :
          "timestamp" \notin ExtraKeys(logs[i].src)
             => /\ logs[i].timestamp # ""
                /\ \E t \in Instants :
                      /\ << logs[i].src, t >> \in stamped
                      /\ logs[i].timestamp = Rfc3339(t)
                /\ "timestamp" \in DOMAIN FromJsonString(logs[i].details)
                /\ FromJsonString(logs[i].details)["timestamp"] = Str(logs[i].timestamp)

\* A row carries the time injected at ingestion although the clock has been
\* read later since.
C7_Witness ==
    \E i \in RowIdx :
        /\ "timestamp" \notin ExtraKeys(logs[i].src)
        /\ logs[i].timestamp = Rfc3339(0)
        /\ clock > 0

\* C8: the details of every row deserialize to the extra fields of the
\* original entry, each with its value, plus the resolved timestamp, and
\* nothing else; level and message are those of the entry.
C8_DetailsRoundTrip ==
    \A i \in RowIdx :
        LET o == Orig(logs[i].src)
            extras == ExtraKeys(logs[i].src)
            d == FromJsonString(logs[i].details)
        IN  /\ DOMAIN d = extras \cup {"timestamp"}
            /\ \A k \in extras : d[k] = o[k]
            /\ "timestamp" \notin extras => d["timestamp"] = Str(logs[i].timestamp)
            /\ logs[i].level = o["level"][2]
            /\ logs[i].message = o["message"][2]

\* Rows exist for an entry with a numeric timestamp and another field, and
\* for an entry without extra fields.
C8_Witness ==
    /\ \E i \in RowIdx : ExtraKeys(logs[i].src) = {"timestamp", "host"}
    /\ \E i \in RowIdx : ExtraKeys(logs[i].src) = {}

(***************************************************************************)
(* Responses.                                                               *)
(***************************************************************************)
\* C9: a well-formed batch is answered 202 and nothing else, whatever was
\* filtered out, and only after every error-level entry of the batch has
\* completed its send (enqueued, or refused by a closed channel); a request
\* whose handler has returned has its answer.
C9_AcceptedAfterEnqueue ==
    \A r \in Requests :
        /\ WellFormed(requests[r]) => responses[r] \in {0, ACCEPTED}
        /\ responses[r] = ACCEPTED
              => /\ WellFormed(requests[r])
                 /\ \A i \in ErrorPositions(r) :
                       << r, i >> \in Range(enqueued) \cup Range(dropped)
        /\ (\A h \in Handlers : rid[h] # r) => responses[r] # 0

\* A request has been answered 202 while one of its entries is still in the
\* channel and not stored.
C9_Witness ==
    \E r \in Requests :
        /\ responses[r] = ACCEPTED
        /\ \E k \in 1..Len(queue) :
              /\ queue[k].src[1] = r
              /\ \A i \in RowIdx : logs[i].src # queue[k].src

\* C10: a body that is not a JSON array of log entries is answered with a
\* client error and nothing else, and no entry of it is ever processed:
\* none is stamped, sent, buffered, held, stored or lost.
C10_MalformedRejected ==
    \A r \in Requests :
        ~WellFormed(requests[r]) =>
            /\ responses[r] \in {0, JsonRejection}
            /\ JsonRejection \in 400..499
            /\ \A h \in Handlers : rid[h] = r => payload[h] = <<>>
            /\ \A it \in InFlight : it.src[1] # r
            /\ \A i \in RowIdx : logs[i].src[1] # r
            /\ \A t \in Range(enqueued) \cup Range(dropped) \cup Range(failed) : t[1] # r
            /\ \A st \in stamped : st[1][1] # r

\* A body with a valid error-level entry before a malformed one has been
\* rejected, while a row of another request is stored.
C10_Witness ==
    \E r \in Requests :
        /\ requests[r] = BodyBadTail
        /\ responses[r] = JsonRejection
        /\ queue = <<>>
        /\ Len(logs) >= 1

(***************************************************************************)
(* Failed inserts.                                                          *)
(***************************************************************************)
\* The place of a tag in the order of completed sends (0 if it has none).
EnqueuePos(t) ==
    IF t \in Range(enqueued)
    THEN CHOOSE k \in 1..Len(enqueued) : enqueued[k] = t
    ELSE 0

\* C11: a failed insert neither stops the worker nor is retried: the step
\* that fails leaves the store and the channel as they are, releases the
\* record and puts the worker back at its receive; a record whose insert
\* failed has no row, fails once, and is never again in the channel, in the
\* worker's hands or in a handler's; the rows stay in the order of the
\* sends; and the worker is finished only with the channel empty and every
\* sender dropped.
C11_FailedInsertSkipped ==
    /\ [](\A k \in 1..Len(failed) :
            /\ \A i \in RowIdx : logs[i].src # failed[k]
            /\ \A it \in InFlight : it.src # failed[k]
            /\ \A j \in 1..Len(failed) : failed[j] = failed[k] => j = k)
    /\ [](\A i, j \in RowIdx :
            i < j => EnqueuePos(logs[i].src) < EnqueuePos(logs[j].src))
    /\ [](wpc = "done" => (queue = <<>> /\ senders = 0 /\ wlog = <<>>))
    /\ [][ /\ failed' # failed
              => /\ wpc = "insert" /\ wpc' = "recv"
                 /\ failed' = Append(failed, wlog[1].src)
                 /\ wlog' = <<>>
                 /\ logs' = logs
                 /\ queue' = queue
                 /\ rxOpen' = rxOpen
           /\ (wpc # "done" /\ wpc' = "done")
              => (wpc = "recv" /\ queue = <<>> /\ senders = 0)
         ]_vars

\* An insert failed, and a record sent after the failed one has its row,
\* the worker having finished at end-of-stream.
C11_Witness ==
    /\ wpc = "done"
    /\ \E k \in 1..Len(failed) : \E i \in RowIdx :
          EnqueuePos(failed[k]) < EnqueuePos(logs[i].src)

(***************************************************************************)
(* Send on a closed channel.                                                *)
(***************************************************************************)
\* C12: a send on the closed channel never fails the request: it is never
\* blocked; the step that ends it only records the loss of the entry and
\* returns the handler to its loop with the rest of the batch, leaving the
\* channel, the store and the responses as they are; a well-formed request
\* is never answered anything but 202, and when it is answered every one of
\* its error-level entries has been sent or lost.
C12_ClosedSendIgnored ==
    /\ [](\A h \in Handlers :
            (hpc[h] = "send" /\ ~rxOpen) => ENABLED Send(h))
    /\ [](\A r \in Requests :
            WellFormed(requests[r]) =>
               /\ responses[r] \in {0, ACCEPTED}
               /\ responses[r] = ACCEPTED =>
                     \A i \in ErrorPositions(r) :
                        << r, i >> \in Range(enqueued) \cup Range(dropped)
               /\ (\A h \in Handlers : rid[h] # r) => responses[r] = ACCEPTED)
    /\ [][ \A h \in Handlers :
             (hpc[h] = "send" /\ ~rxOpen /\ hpc'[h] # "send")
                => /\ dropped' = Append(dropped, log[h][1].src)
                   /\ hpc'[h] = "loop"
                   /\ payload'[h] = payload[h]
                   /\ rid'[h] = rid[h]
                   /\ responses' = responses
                   /\ queue' = queue
                   /\ enqueued' = enqueued
                   /\ logs' = logs
         ]_vars

\* The channel closed under a batch of three entries: its two error-level
\* entries were both lost and the request was answered 202.
C12_Witness ==
    \E r \in Requests :
        /\ requests[r] = BodyBatch
        /\ responses[r] = ACCEPTED
        /\ << r, 1 >> \in Range(dropped)
        /\ << r, 3 >> \in Range(dropped)

(***************************************************************************)
(* The store.                                                               *)
(***************************************************************************)
\* C13: the store is append-only: every step leaves the rows as they are
\* or adds one row behind them, so the rows of a state extend those of
\* every earlier state and no row is ever updated or deleted; and the ids
\* of the rows increase strictly in the order of insertion.
C13_AppendOnly ==
    /\ [](\A i, j \in RowIdx : i < j => logs[i].id < logs[j].id)
    /\ [][ /\ Len(logs') \in { Len(logs), Len(logs) + 1 }
           /\ SubSeq(logs', 1, Len(logs)) = logs
         ]_vars

\* Three rows are stored, an insert having failed on the way.
C13_Witness ==
    /\ Len(logs) = 3
    /\ failed # <<>>

\* C14: only the worker changes the store, and only its dequeue takes
\* records out of the channel: a step that changes the rows is the worker's
\* insert and changes nothing of any handler or of main; a step of a handler
\* or of main (parsing, filtering, enrichment, send, response, shutdown)
\* leaves the rows as they are; and a step after which a buffered record is
\* no longer buffered is the worker's receive of the head of the channel.
C14_OnlyWorkerWritesStore ==
    [][ /\ logs' # logs
           => /\ wpc = "insert" /\ wpc' = "recv"
              /\ wlog # <<>> /\ wlog' = <<>>
              /\ << mainpc', hpc', payload', log', rid', responses', requests' >>
                    = << mainpc, hpc, payload, log, rid, responses, requests >>
        /\ << mainpc', hpc', payload', log', rid', responses', requests' >>
              # << mainpc, hpc, payload, log, rid, responses, requests >>
           => logs' = logs
        /\ ~(Range(queue) \subseteq Range(queue'))
           => /\ wpc = "recv" /\ wpc' = "insert"
              /\ wlog' = << Head(queue) >>
              /\ queue' = Tail(queue)
              /\ hpc' = hpc
      ]_vars

\* With a row stored and a record buffered, one request has been answered
\* and a handler of another is at its send.
C14_Witness ==
    /\ logs # <<>>
    /\ queue # <<>>
    /\ \E h \in Handlers : hpc[h] = "send"
    /\ \E r \in Requests : responses[r] = ACCEPTED

(***************************************************************************)
(* Bound of the channel.                                                    *)
(***************************************************************************)
\* C15: the channel never holds more than Capacity records, however many
\* handlers are at their send.
C15_QueueBounded == Len(queue) <= Capacity

\* The channel holds Capacity records while every handler is at its send.
C15_Witness ==
    /\ Len(queue) = Capacity
    /\ \A h \in Handlers : hpc[h] = "send"

(***************************************************************************)
(* Order across requests.                                                   *)
(***************************************************************************)
\* The records sent and not yet inserted, oldest first: the one the worker
\* holds, then the buffered ones.
Pending == wlog \o queue

\* C16: the rows are in the order in which their records completed their
\* sends, over all requests: a row with a smaller id was sent earlier; the
\* records not yet inserted are the latest sends, in the order of their
\* sends, and every row was sent before them; with no failed insert the rows
\* are exactly the first sends, in order.  The worker holds at most one
\* record, and takes the next from the channel only after the insert of the
\* one it held has returned.
C16_GlobalFifo ==
    /\ [](\A i, j \in RowIdx :
            /\ EnqueuePos(logs[i].src) >= 1
            /\ i < j => EnqueuePos(logs[i].src) < EnqueuePos(logs[j].src))
    /\ [](/\ Len(Pending) <= Len(enqueued)
          /\ \A k \in 1..Len(Pending) :
                Pending[k].src = enqueued[Len(enqueued) - Len(Pending) + k]
          /\ \A i \in RowIdx :
                EnqueuePos(logs[i].src) <= Len(enqueued) - Len(Pending))
    /\ [](failed = <<>> =>
            /\ Len(logs) = Len(enqueued) - Len(Pending)
            /\ \A i \in RowIdx : logs[i].src = enqueued[i])
    /\ [](Len(wlog) <= 1 /\ (wlog # <<>> <=> wpc = "insert"))
    /\ [][ (wlog' # wlog /\ wlog' # <<>>)
             => (wlog = <<>> /\ wpc = "recv" /\ wlog' = << Head(queue) >>)
         ]_vars

\* The sends of two requests interleaved, and the three rows stored are in
\* the order of the sends.
C16_Witness ==
    /\ Len(enqueued) = 3
    /\ enqueued[1][1] = enqueued[3][1]
    /\ enqueued[1][1] # enqueued[2][1]
    /\ Len(logs) = 3
    /\ \A i \in 1..3 : logs[i].src = enqueued[i]

(***************************************************************************)
(* Degenerate timestamp.                                                    *)
(***************************************************************************)
\* A record's extra holds no string under `timestamp`: the key is absent,
\* extra is not an object, or the value is not a string.
NoUsableTimestamp(extra) ==
    \/ extra.kind # "Object"
    \/ "timestamp" \notin DOMAIN extra.map
    \/ extra.map["timestamp"][1] # "str"

\* C17: a record without a usable timestamp is not an error for the worker:
\* holding any record it can insert; the step that stores a record adds the
\* one row of that record, whose timestamp column is the empty string when
\* extra holds no string under `timestamp` and that string otherwise; and
\* the worker is back at its receive.
C17_DegenerateTimestamp ==
    /\ [](wpc = "insert" => ENABLED Insert(TRUE))
    /\ [][ logs' # logs
             => /\ wlog # <<>>
                /\ Len(logs') = Len(logs) + 1
                /\ logs'[Len(logs')].src = wlog[1].src
                /\ logs'[Len(logs')].level = wlog[1].log.level
                /\ logs'[Len(logs')].message = wlog[1].log.message
                /\ logs'[Len(logs')].timestamp =
                      ( IF NoUsableTimestamp(wlog[1].log.extra)
                        THEN ""
                        ELSE wlog[1].log.extra.map["timestamp"][2] )
                /\ failed' = failed
                /\ wpc' = "recv"
         ]_vars

\* The worker has finished, having stored with an empty timestamp a record
\* whose extra lacks the key and a record whose extra is not an object.
C17_Witness ==
    /\ wpc = "done"
    /\ \E i, j \in RowIdx :
          /\ logs[i].details = ToJsonString(RecNoTimestamp.extra)
          /\ logs[i].timestamp = ""
          /\ logs[j].details = ToJsonString(RecNotMapping.extra)
          /\ logs[j].timestamp = ""

(***************************************************************************)
(* The channel stays open while a handler runs.                             *)
(***************************************************************************)
\* The handlers serving a request; each holds a clone of the Sender.
Active == { h \in Handlers : hpc[h] # "idle" }

\* C18: the channel is never closed while a handler can still send.  The
\* live senders are the router's, until serve has returned, and one per
\* running handler; the receiver is released only by the worker at its
\* receive, with the channel empty and no sender left, hence with serve
\* returned and no handler running.  So no send ever returns an error, and
\* every error-level entry of an answered well-formed request completed its
\* send, during shutdown as before it.
C18_NeverClosedUnderHandler ==
    /\ [](Active # {} => rxOpen)
    /\ [](senders = Cardinality(Active)
                      + (IF mainpc \in {"serve", "graceful"} THEN 1 ELSE 0))
    /\ [](~rxOpen => /\ wpc = "done"
                     /\ senders = 0
                     /\ queue = <<>>
                     /\ mainpc \in {"join", "exit"})
    /\ [](dropped = <<>>)
    /\ [](\A r \in Requests :
            responses[r] = ACCEPTED =>
               \A i \in ErrorPositions(r) : << r, i >> \in Range(enqueued))
    /\ [][ (rxOpen /\ ~rxOpen')
             => (wpc = "recv" /\ wpc' = "done" /\ senders = 0 /\ queue = <<>>)
         ]_vars

\* During shutdown the worker has stored a row and waits on the empty open
\* channel, while a handler is at its send.
C18_Witness ==
    /\ mainpc = "graceful"
    /\ rxOpen
    /\ wpc = "recv"
    /\ queue = <<>>
    /\ logs # <<>>
    /\ \E h \in Handlers : hpc[h] = "send"

(***************************************************************************)
(* Conservation.                                                            *)
(***************************************************************************)
\* The error-level entries of the well-formed requests, as tags.
ErrorEntries ==
    UNION { { << r, i >> : i \in ErrorPositions(r) } :
            r \in { q \in Requests : WellFormed(requests[q]) } }

\* C19: records are conserved and never duplicated: the completed sends are
\* as many as the records buffered, held by the worker, stored and lost to
\* a failed insert together; no record is sent twice, every row is the row
\* of a completed send and no two rows are of the same record; and at exit,
\* if no insert failed, the rows are exactly the error-level entries of the
\* well-formed requests, one row each.
C19_Conservation ==
    /\ Len(enqueued) = Len(queue) + Len(wlog) + Len(logs) + Len(failed)
    /\ \A i, j \in 1..Len(enqueued) : enqueued[i] = enqueued[j] => i = j
    /\ \A i \in RowIdx : logs[i].src \in Range(enqueued)
    /\ \A i, j \in RowIdx : logs[i].src = logs[j].src => i = j
    /\ (mainpc = "exit" /\ failed = <<>>)
          => /\ { logs[i].src : i \in RowIdx } = ErrorEntries
             /\ Len(logs) = Cardinality(ErrorEntries)

\* Main has exited with no failed insert after two well-formed requests
\* with three error-level entries between them, and three rows are stored.
C19_Witness ==
    /\ mainpc = "exit"
    /\ failed = <<>>
    /\ Len(requests) = 2
    /\ \A r \in Requests : WellFormed(requests[r])
    /\ Cardinality(ErrorEntries) = 3
    /\ Len(logs) = 3

=============================================================================
